---- MODULE Spec2Model ----
(***************************************************************************)
(* Search-highlight core of criteria-assistant-web: the Match Store        *)
(* (modules/store/store.ts), the Search Controller                         *)
(* (modules/controller/controller.ts) and the components that drive them   *)
(* (SearchBar, TextLayer).                                                 *)
(*                                                                         *)
(* The program state is held in the variables below.  Every operation of   *)
(* the store and of the controller is written as an operator from a world  *)
(* record (the values of all variables) to the world record after the      *)
(* call, so that one operation can call another exactly as the code does;  *)
(* an action applies one such operator to the current world.               *)
(***************************************************************************)
EXTENDS Integers, Sequences, FiniteSets, TLC

VARIABLES
  matchRectsByPage,  \* store.ts StoreState.matchRectsByPage: page -> MatchRect list
  activeIndex,       \* store.ts StoreState.activeIndex
  totalMatches,      \* store.ts StoreState.totalMatches
  currentQuery,      \* store.ts StoreState.currentQuery
  pageStates,        \* controller.ts SearchController.pageStates
  globalMatchOrder,  \* controller.ts SearchController.globalMatchOrder
  layers,            \* children of each page's highlight layer element
  currentPage,       \* PDFViewer.tsx currentPage: the page the TextLayer is mounted for
  timers,            \* pending setTimeout callbacks of the TextLayer component, oldest first
  delivered,         \* what each listener call of the last operation could read
  calls,             \* pipeline components invoked by the last operation
  nested,            \* the synchronous call a listener made during the last operation
  lastCall,          \* the last operation and its arguments
  projected,         \* a rectangle taken through the projector: inputs and results
  pipeline,          \* a text taken through tokenizer, matcher and geometry
  listeners,         \* store.ts MatchStore.listeners
  listenerCalls,     \* listeners called by the last notifyListeners, in order
  scale,             \* PDFViewer.tsx scale
  clock              \* whether the number of timeouts the event loop has run is odd

vars == <<matchRectsByPage, activeIndex, totalMatches, currentQuery, pageStates,
          globalMatchOrder, layers, currentPage, timers, delivered, calls, nested,
          lastCall, projected, pipeline, listeners, listenerCalls, scale, clock>>

storeVars == <<matchRectsByPage, activeIndex, totalMatches, currentQuery>>

searchVars == <<storeVars, pageStates, globalMatchOrder, layers, currentPage,
                timers, delivered, calls, nested, lastCall>>

componentVars == <<pipeline, listeners, listenerCalls, scale>>

----------------------------------------------------------------------------
(* Bounds of the model *)

\* the most rectangles one run of the pipeline measures on a page
MaxRects == 2
\* the order counter is not driven beyond this value
MaxOrder == 2
\* the most setTimeout callbacks pending at once
MaxTimers == 3

\* the pages of the document
Pages == {1, 2}

\* Query strings, as sequences of UTF-16 code units: '', 'a', 'b'
Queries == {<< >>, <<97>>, <<98>>}

----------------------------------------------------------------------------
(* Strings *)

IsSpace(c) == c \in {9, 10, 11, 12, 13, 32}

RECURSIVE TrimStart(_)
TrimStart(s) ==
  IF s = << >> THEN s
  ELSE IF IsSpace(Head(s)) THEN TrimStart(Tail(s)) ELSE s

RECURSIVE TrimEnd(_)
TrimEnd(s) ==
  IF s = << >> THEN s
  ELSE IF IsSpace(s[Len(s)]) THEN TrimEnd(SubSeq(s, 1, Len(s) - 1)) ELSE s

\* String.prototype.trim
Trim(s) == TrimEnd(TrimStart(s))

\* !query.trim()
IsBlank(q) == Trim(q) = << >>

\* A 32-bit integer is held as its two 16-bit halves <<hi, lo>> (two's complement)
Half == 65536

\* one round of generateTermId's loop: hash = ((hash << 5) - hash) + char,
\* then hash & hash (ToInt32); on 32 bits this is 31 * hash + char
HashStep(hash, char) ==
  LET lo == 31 * hash[2] + char
      hi == 31 * hash[1] + (lo \div Half)
  IN <<hi % Half, lo % Half>>

RECURSIVE HashFrom(_, _)
HashFrom(hash, s) ==
  IF s = << >> THEN hash ELSE HashFrom(HashStep(hash, Head(s)), Tail(s))

\* Math.abs of the 32-bit integer <<hi, lo>>, as halves
Abs32(h) ==
  IF h[1] < Half \div 2 THEN h
  ELSE <<(Half - 1) - h[1] + (IF h[2] = 0 THEN 1 ELSE 0), (Half - h[2]) % Half>>

\* matcher generateTermId: the number N of the string `term_N`, as halves
generateTermId(query) == Abs32(HashFrom(<<0, 0>>, query))

----------------------------------------------------------------------------
(* Values *)

\* controller getPageState default
IdleState == [isProcessing |-> FALSE, isProcessed |-> FALSE, lastQuery |-> << >>]

NoCall == [op |-> "none", page |-> 0, query |-> << >>, kind |-> "none", n |-> 0]

NoNested == [call |-> NoCall, pre |-> << >>, post |-> << >>]

RECURSIVE SumLen(_, _)
SumLen(byPage, ps) ==
  IF ps = {} THEN 0
  ELSE LET p == CHOOSE x \in ps : TRUE
       IN Len(byPage[p]) + SumLen(byPage, ps \ {p})

RECURSIVE ConcatPages(_, _)
\* concatenation of the lists of the pages ps, in ascending page number
ConcatPages(byPage, ps) ==
  IF ps = {} THEN << >>
  ELSE LET p == CHOOSE x \in ps : \A y \in ps : x <= y
       IN byPage[p] \o ConcatPages(byPage, ps \ {p})

Min(a, b) == IF a < b THEN a ELSE b
Max(a, b) == IF a > b THEN a ELSE b

----------------------------------------------------------------------------
(* The world record *)

World ==
  [matchRectsByPage |-> matchRectsByPage, activeIndex |-> activeIndex,
   totalMatches |-> totalMatches, currentQuery |-> currentQuery,
   pageStates |-> pageStates, globalMatchOrder |-> globalMatchOrder,
   layers |-> layers, delivered |-> << >>, calls |-> {}, nested |-> NoNested]

\* what a listener can read while it runs: the store snapshot it is handed
\* (getState) and the controller's fields at that moment
Visible(W) ==
  [matchRectsByPage |-> W.matchRectsByPage, activeIndex |-> W.activeIndex,
   totalMatches |-> W.totalMatches, currentQuery |-> W.currentQuery,
   pageStates |-> W.pageStates, globalMatchOrder |-> W.globalMatchOrder]

----------------------------------------------------------------------------
(* Match Store (modules/store/store.ts) *)

\* notifyListeners: every listener is called with the snapshot of the state
notifyListeners(W) == [W EXCEPT !.delivered = Append(@, Visible(W))]

\* updateTotalMatches
updateTotalMatches(W) ==
  [W EXCEPT !.totalMatches = SumLen(W.matchRectsByPage, Pages)]

\* setMatchRects(page, rects)
setMatchRects(W, page, rects) ==
  notifyListeners(updateTotalMatches([W EXCEPT !.matchRectsByPage[page] = rects]))

\* getMatchRects(page)
getMatchRects(W, page) == W.matchRectsByPage[page]

\* getAllMatchRects: the pages' lists concatenated in ascending page number
getAllMatchRects(W) == ConcatPages(W.matchRectsByPage, Pages)

\* setActiveIndex(index)
setActiveIndex(W, index) ==
  notifyListeners(
    [W EXCEPT !.activeIndex =
       IF W.totalMatches = 0 THEN -1
       ELSE Max(0, Min(index, W.totalMatches - 1))])

\* getActiveMatch: a MatchRect, or the empty sequence for null
getActiveMatch(W) ==
  LET allRects == getAllMatchRects(W)
  IN IF W.activeIndex >= 0 /\ W.activeIndex < Len(allRects)
     THEN <<allRects[W.activeIndex + 1]>>
     ELSE << >>

\* nextMatch that stops at the last match instead of wrapping
nextMatchClamping(W) ==
  IF W.totalMatches = 0 THEN W
  ELSE setActiveIndex(W, IF W.activeIndex < 0 THEN 0 ELSE W.activeIndex + 1)

\* nextMatch
nextMatch(W) ==
  IF W.totalMatches = 0 THEN W
  ELSE setActiveIndex(W, IF W.activeIndex < 0 THEN 0
                         ELSE (W.activeIndex + 1) % W.totalMatches)

\* prevMatch without the early return on an empty store
prevMatchNotifying(W) ==
  setActiveIndex(W, IF W.activeIndex < 0 THEN W.totalMatches - 1
                    ELSE W.activeIndex - 1)

\* prevMatch that stops at the first match instead of wrapping
prevMatchClamping(W) ==
  IF W.totalMatches = 0 THEN W
  ELSE setActiveIndex(W, IF W.activeIndex < 0 THEN W.totalMatches - 1
                         ELSE W.activeIndex - 1)

\* prevMatch
prevMatch(W) ==
  IF W.totalMatches = 0 THEN W
  ELSE setActiveIndex(W, IF W.activeIndex < 0 THEN W.totalMatches - 1
                         ELSE (W.activeIndex - 1 + W.totalMatches) % W.totalMatches)

\* clearAllMatches
clearAllMatches(W) ==
  notifyListeners(
    [W EXCEPT !.matchRectsByPage = [p \in Pages |-> << >>],
              !.activeIndex = -1,
              !.totalMatches = 0])

\* clearPageMatches that forgets to recompute the total
clearPageMatchesStaleTotal(W, page) ==
  LET W1 == [W EXCEPT !.matchRectsByPage[page] = << >>]
      W2 == IF W1.activeIndex >= W1.totalMatches
            THEN [W1 EXCEPT !.activeIndex = -1] ELSE W1
  IN notifyListeners(W2)

\* clearPageMatches(page)
clearPageMatches(W, page) ==
  LET W1 == updateTotalMatches([W EXCEPT !.matchRectsByPage[page] = << >>])
      W2 == IF W1.activeIndex >= W1.totalMatches
            THEN [W1 EXCEPT !.activeIndex = -1] ELSE W1
  IN notifyListeners(W2)

\* setQuery that clears the matches whatever the query
setQueryAlwaysClearing(W, query) ==
  clearAllMatches([W EXCEPT !.currentQuery = query])

\* setQuery that keeps the stored matches of the previous query
setQueryKeepingMatches(W, query) ==
  IF W.currentQuery # query
  THEN notifyListeners([W EXCEPT !.currentQuery = query])
  ELSE W

\* setQuery(query)
setQuery(W, query) ==
  IF W.currentQuery # query
  THEN clearAllMatches([W EXCEPT !.currentQuery = query])
  ELSE W

----------------------------------------------------------------------------
(* Renderer (modules/renderer/renderer.ts) *)

\* paintHighlights that does not clear the layer before it adds the elements
paintHighlightsAppending(W, page, rects, activeIdx) ==
  [W EXCEPT !.layers[page] =
              @ \o [i \in 1..Len(rects) |->
                      [order |-> rects[i].order, active |-> (i - 1 = activeIdx)]],
            !.calls = @ \cup {"paint"}]

\* paintHighlights: the layer is cleared, then one element per rect is added,
\* the one at activeIndex with class `highlight active`
paintHighlights(W, page, rects, activeIdx) ==
  [W EXCEPT !.layers[page] =
              [i \in 1..Len(rects) |->
                 [order |-> rects[i].order, active |-> (i - 1 = activeIdx)]],
            !.calls = @ \cup {"paint"}]

----------------------------------------------------------------------------
(* Search Controller (modules/controller/controller.ts) *)

\* Array.prototype.findIndex(m => m.rect.order === order)
RECURSIVE FindIndexFrom(_, _, _)
FindIndexFrom(rects, order, i) ==
  IF i > Len(rects) THEN -1
  ELSE IF rects[i].order = order THEN i - 1
  ELSE FindIndexFrom(rects, order, i + 1)

\* getPageState / setPageState
getPageState(W, page) == W.pageStates[page]
setPageState(W, page, state) == [W EXCEPT !.pageStates[page] = state]

\* renderPageHighlights(page, viewport, highlightLayer)
renderPageHighlights(W, page) ==
  LET matchRects == getMatchRects(W, page)
      activeMatch == getActiveMatch(W)
      activeIdx == IF activeMatch # << >> /\ activeMatch[1].page = page
                   THEN FindIndexFrom(matchRects, activeMatch[1].order, 1)
                   ELSE -1
  IN paintHighlights(W, page, matchRects, activeIdx)

\* what one run of the pipeline yields on the page's text element
Outcomes ==
  {[kind |-> k, n |-> 0] :
     k \in {"noTokens", "noMatches", "noRects", "throws"}}
  \cup {[kind |-> "rects", n |-> n] : n \in 1..MaxRects}
  \cup {[kind |-> "renderThrows", n |-> n] : n \in 1..MaxRects}

\* the MatchRects of lines 81-95: orders from the counter, termId of the query
NewMatchRects(W, page, query, n) ==
  [i \in 1..n |->
     [page |-> page, termId |-> generateTermId(query),
      order |-> W.globalMatchOrder + (i - 1)]]

\* a listener that reacts to a notification by calling the controller
\* synchronously: `run` is the controller call applied to the world the
\* listener sees; what it saw and what it left are kept in `nested`
Reenter(W, call, after) ==
  IF call.op = "none" THEN W
  ELSE [after EXCEPT !.nested =
          [call |-> call, pre |-> Visible(W), post |-> Visible(after)]]

RECURSIVE processPageSearch(_, _, _, _, _)

\* clearPageResults(page, highlightLayer); re is the listener's reaction to the
\* notification of clearPageMatches
clearPageResults(W, page, re) ==
  LET W1 == clearPageMatches(W, page)
      W2 == Reenter(W1, re,
                    processPageSearch(W1, re.page, re.query,
                                      [kind |-> re.kind, n |-> re.n], NoCall))
  IN setPageState([W2 EXCEPT !.layers[page] = << >>], page, IdleState)

\* lines 54-110 of processPageSearch, the page marked as processing
RunPipeline(W, page, query, out, re) ==
  CASE out.kind = "throws" ->
         \* the pipeline throws before anything is stored: the catch block
         setPageState(
           clearPageResults([W EXCEPT !.calls = @ \cup {"tokenize"}], page, re),
           page, IdleState)
    [] out.kind = "noTokens" ->
         clearPageResults([W EXCEPT !.calls = @ \cup {"tokenize"}], page, re)
    [] out.kind = "noMatches" ->
         clearPageResults(
           [W EXCEPT !.calls = @ \cup {"tokenize", "findMatches"}], page, re)
    [] out.kind = "noRects" ->
         clearPageResults(
           [W EXCEPT !.calls = @ \cup {"tokenize", "findMatches", "measureSubstrings"}],
           page, re)
    [] OTHER ->
         LET matchRects == NewMatchRects(W, page, query, out.n)
             W1 == [W EXCEPT
                      !.calls = @ \cup {"tokenize", "findMatches", "measureSubstrings"},
                      !.globalMatchOrder = @ + out.n]
             W2 == setMatchRects(W1, page, matchRects)
             W3 == Reenter(W2, re,
                           processPageSearch(W2, re.page, re.query,
                                             [kind |-> re.kind, n |-> re.n], NoCall))
         IN IF out.kind = "rects"
            THEN setPageState(
                   renderPageHighlights(W3, page), page,
                   [isProcessing |-> FALSE, isProcessed |-> TRUE, lastQuery |-> query])
            ELSE \* renderPageHighlights throws: the catch block
                 setPageState(clearPageResults(W3, page, NoCall), page, IdleState)

\* processPageSearch without the render-only path of lines 44-49
processPageSearchAlwaysRunning(W, page, query, out, re) ==
  IF IsBlank(query) THEN clearPageResults(W, page, re)
  ELSE LET pageState == getPageState(W, page)
       IN IF pageState.isProcessing THEN W
          ELSE RunPipeline(
                 setPageState(W, page,
                   [isProcessing |-> TRUE, isProcessed |-> FALSE, lastQuery |-> query]),
                 page, query, out, re)

\* processPageSearch without the isProcessing guard of lines 38-42
processPageSearchUnguarded(W, page, query, out, re) ==
  IF IsBlank(query) THEN clearPageResults(W, page, re)
  ELSE LET pageState == getPageState(W, page)
       IN IF pageState.isProcessed /\ pageState.lastQuery = query
          THEN renderPageHighlights(W, page)
          ELSE RunPipeline(
                 setPageState(W, page,
                   [isProcessing |-> TRUE, isProcessed |-> FALSE, lastQuery |-> query]),
                 page, query, out, re)

\* processPageSearch(page, query, textElement, viewport, highlightLayer)
processPageSearch(W, page, query, out, re) ==
  IF IsBlank(query) THEN clearPageResults(W, page, re)
  ELSE LET pageState == getPageState(W, page)
       IN IF pageState.isProcessing THEN W
          ELSE IF pageState.isProcessed /\ pageState.lastQuery = query
          THEN renderPageHighlights(W, page)
          ELSE RunPipeline(
                 setPageState(W, page,
                   [isProcessing |-> TRUE, isProcessed |-> FALSE, lastQuery |-> query]),
                 page, query, out, re)

\* startNewSearch(query)
startNewSearch(W, query) ==
  [setQuery(W, query) EXCEPT
     !.globalMatchOrder = 0,
     !.pageStates = [p \in Pages |-> IdleState]]

\* handleViewportChange that invalidates and re-measures each visible page
RECURSIVE handleViewportChangeRemeasuring(_, _)
handleViewportChangeRemeasuring(W, visiblePages) ==
  IF visiblePages = << >> THEN W
  ELSE LET page == Head(visiblePages)
           W1 == IF Len(getMatchRects(W, page)) > 0
                 THEN [renderPageHighlights(W, page) EXCEPT
                         !.calls = @ \cup {"measureSubstrings"},
                         !.pageStates[page] = IdleState]
                 ELSE W
       IN handleViewportChangeRemeasuring(W1, Tail(visiblePages))

\* handleViewportChange(viewport, visiblePages)
RECURSIVE handleViewportChange(_, _)
handleViewportChange(W, visiblePages) ==
  IF visiblePages = << >> THEN W
  ELSE LET page == Head(visiblePages)
           W1 == IF Len(getMatchRects(W, page)) > 0
                 THEN renderPageHighlights(W, page) ELSE W
       IN handleViewportChange(W1, Tail(visiblePages))

----------------------------------------------------------------------------
(* Numbers of the projector: a JavaScript number is held as the rational
   <<n, d>> in lowest terms with d > 0 *)

RECURSIVE GCD(_, _)
GCD(a, b) == IF b = 0 THEN a ELSE GCD(b, a % b)

RatNorm(n, d) ==
  LET s == IF d < 0 THEN -1 ELSE 1
      g == GCD(IF n < 0 THEN -n ELSE n, IF d < 0 THEN -d ELSE d)
  IN <<(s * n) \div g, (s * d) \div g>>

Rat(n) == <<n, 1>>
RatAdd(a, b) == RatNorm(a[1] * b[2] + b[1] * a[2], a[2] * b[2])
RatSub(a, b) == RatNorm(a[1] * b[2] - b[1] * a[2], a[2] * b[2])
RatMul(a, b) == RatNorm(a[1] * b[1], a[2] * b[2])
RatDiv(a, b) == RatNorm(a[1] * b[2], a[2] * b[1])
RatLeq(a, b) == a[1] * b[2] <= b[1] * a[2]
RatAbs(a) == IF a[1] < 0 THEN <<-a[1], a[2]>> ELSE a

\* Math.min(...xs) and Math.max(...xs)
RatMin(xs) == CHOOSE x \in xs : \A y \in xs : RatLeq(x, y)
RatMax(xs) == CHOOSE x \in xs : \A y \in xs : RatLeq(y, x)

\* Math.cos and Math.sin of angleDegrees * Math.PI / 180 for the multiples of
\* 90 degrees, as the exact values -1, 0, 1
Cos(angleDegrees) ==
  LET a == angleDegrees % 360
  IN IF a = 0 THEN Rat(1) ELSE IF a = 180 THEN Rat(-1) ELSE Rat(0)

Sin(angleDegrees) ==
  LET a == angleDegrees % 360
  IN IF a = 90 THEN Rat(1) ELSE IF a = 270 THEN Rat(-1) ELSE Rat(0)

----------------------------------------------------------------------------
(* Projector (modules/projector/projector.ts) *)

\* getRectangleCorners: bottom-left, bottom-right, top-right, top-left
getRectangleCorners(rect) ==
  LET x == rect[1]
      y == rect[2]
      w == rect[3]
      h == rect[4]
  IN <<[x |-> x, y |-> y],
       [x |-> RatAdd(x, w), y |-> y],
       [x |-> RatAdd(x, w), y |-> RatAdd(y, h)],
       [x |-> x, y |-> RatAdd(y, h)]>>

\* rotatePoint(point, angleDegrees, centerX, centerY)
rotatePoint(point, angleDegrees, centerX, centerY) ==
  LET cos == Cos(angleDegrees)
      sin == Sin(angleDegrees)
      relX == RatSub(point.x, centerX)
      relY == RatSub(point.y, centerY)
      rotatedX == RatSub(RatMul(relX, cos), RatMul(relY, sin))
      rotatedY == RatAdd(RatMul(relX, sin), RatMul(relY, cos))
  IN [x |-> RatAdd(rotatedX, centerX), y |-> RatAdd(rotatedY, centerY)]

\* the corners of rect rotated about the page centre of the viewport
RotatedCorners(rect, angleDegrees, viewport) ==
  LET corners == getRectangleCorners(rect)
      centerX == RatDiv(viewport.width, RatMul(Rat(2), viewport.scale))
      centerY == RatDiv(viewport.height, RatMul(Rat(2), viewport.scale))
  IN {rotatePoint(corners[i], angleDegrees, centerX, centerY) : i \in 1..4}

\* pdfToCss without the inversion of the Y axis
pdfToCssNoInversion(bboxPdf, viewport) ==
  <<RatMul(bboxPdf[1], viewport.scale), RatMul(bboxPdf[2], viewport.scale),
    RatMul(bboxPdf[3], viewport.scale), RatMul(bboxPdf[4], viewport.scale)>>

\* pdfToCss that leaves width and height in PDF units
pdfToCssUnscaledSize(bboxPdf, viewport) ==
  <<RatMul(bboxPdf[1], viewport.scale),
    RatSub(viewport.height,
           RatAdd(RatMul(bboxPdf[2], viewport.scale), RatMul(bboxPdf[4], viewport.scale))),
    bboxPdf[3], bboxPdf[4]>>

\* pdfToCss(bboxPdf, viewport)
pdfToCss(bboxPdf, viewport) ==
  LET pdfX == bboxPdf[1]
      pdfY == bboxPdf[2]
      pdfW == bboxPdf[3]
      pdfH == bboxPdf[4]
  IN IF viewport.rotation = 0
     THEN <<RatMul(pdfX, viewport.scale),
            RatSub(viewport.height,
                   RatAdd(RatMul(pdfY, viewport.scale), RatMul(pdfH, viewport.scale))),
            RatMul(pdfW, viewport.scale),
            RatMul(pdfH, viewport.scale)>>
     ELSE LET rotatedCorners == RotatedCorners(bboxPdf, viewport.rotation, viewport)
              minX == RatMin({c.x : c \in rotatedCorners})
              maxX == RatMax({c.x : c \in rotatedCorners})
              minY == RatMin({c.y : c \in rotatedCorners})
              maxY == RatMax({c.y : c \in rotatedCorners})
          IN <<RatMul(minX, viewport.scale),
               RatSub(viewport.height, RatMul(maxY, viewport.scale)),
               RatMul(RatSub(maxX, minX), viewport.scale),
               RatMul(RatSub(maxY, minY), viewport.scale)>>

\* the bounding box of the corners, as [minX, minY, maxX - minX, maxY - minY]
BoundingBox(rotatedCorners) ==
  LET minX == RatMin({c.x : c \in rotatedCorners})
      maxX == RatMax({c.x : c \in rotatedCorners})
      minY == RatMin({c.y : c \in rotatedCorners})
      maxY == RatMax({c.y : c \in rotatedCorners})
  IN <<minX, minY, RatSub(maxX, minX), RatSub(maxY, minY)>>

\* cssToPdf that rotates back about the centre of the viewport in CSS pixels
cssToPdfAboutCssCentre(cssRect, viewport) ==
  LET pdfLeft == RatDiv(cssRect[1], viewport.scale)
      pdfTop == RatDiv(RatSub(viewport.height, cssRect[2]), viewport.scale)
      pdfWidth == RatDiv(cssRect[3], viewport.scale)
      pdfHeight == RatDiv(cssRect[4], viewport.scale)
      corners == getRectangleCorners(
                   <<pdfLeft, RatSub(pdfTop, pdfHeight), pdfWidth, pdfHeight>>)
  IN BoundingBox({rotatePoint(corners[i], -viewport.rotation,
                              RatDiv(viewport.width, Rat(2)),
                              RatDiv(viewport.height, Rat(2))) : i \in 1..4})

\* cssToPdf(cssRect, viewport)
cssToPdf(cssRect, viewport) ==
  LET cssLeft == cssRect[1]
      cssTop == cssRect[2]
      cssWidth == cssRect[3]
      cssHeight == cssRect[4]
  IN IF viewport.rotation = 0
     THEN <<RatDiv(cssLeft, viewport.scale),
            RatDiv(RatSub(viewport.height, RatAdd(cssTop, cssHeight)), viewport.scale),
            RatDiv(cssWidth, viewport.scale),
            RatDiv(cssHeight, viewport.scale)>>
     ELSE LET pdfLeft == RatDiv(cssLeft, viewport.scale)
              pdfTop == RatDiv(RatSub(viewport.height, cssTop), viewport.scale)
              pdfWidth == RatDiv(cssWidth, viewport.scale)
              pdfHeight == RatDiv(cssHeight, viewport.scale)
              pdfRect == <<pdfLeft, RatSub(pdfTop, pdfHeight), pdfWidth, pdfHeight>>
          IN BoundingBox(RotatedCorners(pdfRect, -viewport.rotation, viewport))

\* no rectangle is being projected
\* createValidationCrosshairs(viewport): the four corner squares, projected
createValidationCrosshairs(viewport) ==
  LET pageWidth == RatDiv(viewport.width, viewport.scale)
      pageHeight == RatDiv(viewport.height, viewport.scale)
      crosshairSize == RatDiv(Rat(10), viewport.scale)
      corners ==
        <<<<Rat(0), Rat(0), crosshairSize, crosshairSize>>,
          <<RatSub(pageWidth, crosshairSize), Rat(0), crosshairSize, crosshairSize>>,
          <<RatSub(pageWidth, crosshairSize), RatSub(pageHeight, crosshairSize),
            crosshairSize, crosshairSize>>,
          <<Rat(0), RatSub(pageHeight, crosshairSize), crosshairSize, crosshairSize>>>>
  IN [i \in 1..4 |-> pdfToCss(corners[i], viewport)]

NoProjection == [stage |-> "none"]

----------------------------------------------------------------------------
(* Initial state: the module singletons after construction *)

InitSearch ==
  /\ matchRectsByPage = [p \in Pages |-> << >>]
  /\ activeIndex = -1
  /\ totalMatches = 0
  /\ currentQuery = << >>
  /\ pageStates = [p \in Pages |-> IdleState]
  /\ globalMatchOrder = 0
  /\ layers = [p \in Pages |-> << >>]
  /\ currentPage = 1
  /\ timers = << >>
  /\ delivered = << >>
  /\ calls = {}
  /\ nested = NoNested
  /\ lastCall = NoCall

\* no text has been searched, nobody has subscribed, the viewer shows 100%
InitComponents ==
  /\ pipeline = [stage |-> "none"]
  /\ listeners = << >>
  /\ listenerCalls = << >>
  /\ scale = Rat(1)
  /\ clock = FALSE

Init == InitSearch /\ projected = NoProjection /\ InitComponents

\* the variables of store, controller and layers after a call that took World
\* to the world `after`
CallBecomes(after, call) ==
  \E W \in {after} :
    /\ W.globalMatchOrder <= MaxOrder
    /\ \A p \in Pages : Len(W.matchRectsByPage[p]) <= MaxRects
    /\ matchRectsByPage' = W.matchRectsByPage
    /\ activeIndex' = W.activeIndex
    /\ totalMatches' = W.totalMatches
    /\ currentQuery' = W.currentQuery
    /\ pageStates' = W.pageStates
    /\ globalMatchOrder' = W.globalMatchOrder
    /\ layers' = W.layers
    /\ delivered' = W.delivered
    /\ calls' = W.calls
    /\ nested' = W.nested
    /\ lastCall' = call
    /\ UNCHANGED <<projected, componentVars>>

\* the variables after a call made outside a timeout
Becomes(after, call) == CallBecomes(after, call) /\ UNCHANGED clock

Call(op, page, query, out) ==
  [op |-> op, page |-> page, query |-> query, kind |-> out.kind, n |-> out.n]

NoOutcome == [kind |-> "none", n |-> 0]

\* needsProcessing(page, query), for a query that is not blank
needsProcessing(W, page, query) ==
  LET state == getPageState(W, page)
  IN ~state.isProcessing /\ (~state.isProcessed \/ state.lastQuery # query)

\* the pipeline outcomes that matter to a call: none when the call returns
\* before the pipeline
OutcomesFor(W, page, query) ==
  IF ~IsBlank(query) /\ needsProcessing(W, page, query)
  THEN Outcomes ELSE {NoOutcome}

\* the outcomes drawn for the call a listener makes
NestedOutcomes ==
  {[kind |-> "noMatches", n |-> 0], [kind |-> "rects", n |-> 1]}

\* the world as the listeners of processPageSearch(page, query) first see it
AtNotification(W, page, query, out) ==
  IF IsBlank(query) THEN clearPageMatches(W, page)
  ELSE LET W1 == setPageState(W, page,
                   [isProcessing |-> TRUE, isProcessed |-> FALSE, lastQuery |-> query])
       IN IF out.kind \in {"rects", "renderThrows"}
          THEN setMatchRects([W1 EXCEPT !.globalMatchOrder = @ + out.n], page,
                             NewMatchRects(W1, page, query, out.n))
          ELSE clearPageMatches(W1, page)

\* the calls a listener may make during the first notification of
\* processPageSearch(page, query): none, or processPageSearch for the same
\* query and any page
ReactionsFor(W, page, query, out) ==
  IF ~IsBlank(query) /\ out # NoOutcome
  THEN {NoCall} \cup
       UNION {{Call("processPageSearch", p, query, o) :
                 o \in IF needsProcessing(AtNotification(W, page, query, out), p, query)
                       THEN NestedOutcomes ELSE {NoOutcome}} :
              p \in Pages}
  ELSE {NoCall}

----------------------------------------------------------------------------
(* The controller's interface: any caller, any arguments *)

StartNewSearch(query) ==
  /\ Becomes(startNewSearch(World, query), Call("startNewSearch", 0, query, NoOutcome))
  /\ UNCHANGED <<currentPage, timers>>

ProcessPageSearch(page, query, out, re) ==
  /\ Becomes(processPageSearch(World, page, query, out, re),
             Call("processPageSearch", page, query, out))
  /\ UNCHANGED <<currentPage, timers>>

NextMatch ==
  /\ Becomes(nextMatch(World), Call("nextMatch", 0, << >>, NoOutcome))
  /\ UNCHANGED <<currentPage, timers>>

PrevMatch ==
  /\ Becomes(prevMatch(World), Call("prevMatch", 0, << >>, NoOutcome))
  /\ UNCHANGED <<currentPage, timers>>

\* lists of visible pages
VisiblePageLists == {<< >>} \cup {<<p>> : p \in Pages} \cup {<<1, 2>>}

HandleViewportChange(visiblePages) ==
  /\ Becomes(handleViewportChange(World, visiblePages),
             Call("handleViewportChange", Len(visiblePages), << >>, NoOutcome))
  /\ UNCHANGED <<currentPage, timers>>

Next ==
  \/ \E q \in Queries : StartNewSearch(q)
  \/ \E p \in Pages, q \in Queries :
       \E out \in OutcomesFor(World, p, q) :
         ProcessPageSearch(p, q, out, NoCall)
  \/ NextMatch
  \/ PrevMatch
  \/ \E ps \in VisiblePageLists : HandleViewportChange(ps)

Spec == Init /\ [][Next]_vars

----------------------------------------------------------------------------
(* The controller with a listener that calls processPageSearch synchronously
   from inside a notification *)

ProcessPageSearchNotifying(page, query, out, re) ==
  ProcessPageSearch(page, query, out, re)

NextReentrant ==
  \/ \E q \in Queries : StartNewSearch(q)
  \/ \E p \in Pages, q \in Queries :
       \E out \in OutcomesFor(World, p, q) :
         \E re \in ReactionsFor(World, p, q, out) :
           ProcessPageSearchNotifying(p, q, out, re)

SpecReentrant == Init /\ [][NextReentrant]_vars

----------------------------------------------------------------------------
(* The store's interface: any caller, any arguments *)

\* MatchRect lists a caller may hand to setMatchRects(page, rects)
RECURSIVE RectLists(_, _)
RectLists(page, n) ==
  IF n = 0 THEN {<< >>}
  ELSE RectLists(page, n - 1) \cup
       {Append(l, [page |-> page, termId |-> generateTermId(q), order |-> o]) :
          l \in {x \in RectLists(page, n - 1) : Len(x) = n - 1},
          q \in Queries \ {<< >>}, o \in 0..(MaxOrder - 1)}

SetMatchRects(page, rects) ==
  /\ Becomes(setMatchRects(World, page, rects),
             Call("setMatchRects", page, << >>, [kind |-> "none", n |-> Len(rects)]))
  /\ UNCHANGED <<currentPage, timers>>

SetActiveIndex(index) ==
  /\ Becomes(setActiveIndex(World, index),
             Call("setActiveIndex", 0, << >>, [kind |-> "none", n |-> index]))
  /\ UNCHANGED <<currentPage, timers>>

StoreNextMatch ==
  /\ Becomes(nextMatch(World), Call("nextMatch", 0, << >>, NoOutcome))
  /\ UNCHANGED <<currentPage, timers>>

StorePrevMatch ==
  /\ Becomes(prevMatch(World), Call("prevMatch", 0, << >>, NoOutcome))
  /\ UNCHANGED <<currentPage, timers>>

ClearAllMatches ==
  /\ Becomes(clearAllMatches(World), Call("clearAllMatches", 0, << >>, NoOutcome))
  /\ UNCHANGED <<currentPage, timers>>

ClearPageMatches(page) ==
  /\ Becomes(clearPageMatches(World, page),
             Call("clearPageMatches", page, << >>, NoOutcome))
  /\ UNCHANGED <<currentPage, timers>>

SetQuery(query) ==
  /\ Becomes(setQuery(World, query), Call("setQuery", 0, query, NoOutcome))
  /\ UNCHANGED <<currentPage, timers>>

NextStore ==
  \/ \E p \in Pages : \E rects \in RectLists(p, MaxRects) : SetMatchRects(p, rects)
  \/ \E i \in -1..(2 * MaxRects) : SetActiveIndex(i)
  \/ StoreNextMatch
  \/ StorePrevMatch
  \/ ClearAllMatches
  \/ \E p \in Pages : ClearPageMatches(p)
  \/ \E q \in Queries : SetQuery(q)

SpecStore == Init /\ [][NextStore]_vars

----------------------------------------------------------------------------
(* The application: SearchBar and PDFViewer drive the controller, and the
   TextLayer of the current page calls processPageSearch from timeouts *)

\* TextLayer's subscriber (lines 226-244): one timeout per notification that
\* carries a query that is not blank, for the subscriber's page and that query
RECURSIVE Scheduled(_, _)
Scheduled(snapshots, page) ==
  IF snapshots = << >> THEN << >>
  ELSE (IF IsBlank(Head(snapshots).currentQuery) THEN << >>
        ELSE <<[page |-> page, query |-> Head(snapshots).currentQuery,
                effect |-> FALSE]>>)
       \o Scheduled(Tail(snapshots), page)

\* a call of the controller with the TextLayer subscribed; pending are the
\* timeouts that were pending before the call and stay so: when the call is
\* made by a timeout, one fewer than before, and the clock has advanced
AppBecomes(after, call, pending) ==
  \E W \in {after} :
    /\ CallBecomes(W, call)
    /\ clock' = (IF Len(pending) < Len(timers) THEN ~clock ELSE clock)
    /\ timers' = pending \o Scheduled(W.delivered, currentPage)
    /\ Len(timers') <= MaxTimers
    /\ UNCHANGED currentPage

\* SearchBar's debounced effect: startNewSearch when the input differs from
\* the query of the last notification
SearchBarSearch(query) ==
  /\ query # currentQuery
  /\ AppBecomes(startNewSearch(World, query),
                Call("startNewSearch", 0, query, NoOutcome), timers)

\* the oldest timeout fires: processPageSearch with the page and the query the
\* callback captured
TimerFires(out) ==
  /\ timers # << >>
  /\ out \in OutcomesFor(World, Head(timers).page, Head(timers).query)
  /\ AppBecomes(processPageSearch(World, Head(timers).page, Head(timers).query,
                                  out, NoCall),
                Call("processPageSearch", Head(timers).page, Head(timers).query, out),
                Tail(timers))

\* SearchBar's Next and Previous buttons, disabled while there is no match
SearchBarNext ==
  /\ totalMatches # 0
  /\ AppBecomes(nextMatch(World), Call("nextMatch", 0, << >>, NoOutcome), timers)

SearchBarPrevious ==
  /\ totalMatches # 0
  /\ AppBecomes(prevMatch(World), Call("prevMatch", 0, << >>, NoOutcome), timers)

\* the timeouts that are not the mount effect's (its cleanup clears that one)
RECURSIVE WithoutEffect(_)
WithoutEffect(ts) ==
  IF ts = << >> THEN << >>
  ELSE (IF Head(ts).effect THEN << >> ELSE <<Head(ts)>>) \o WithoutEffect(Tail(ts))

\* PDFViewer goPrev / goNext: the TextLayer's effects run again for the new
\* page (lines 199-222): the pending effect timeout is cleared and, with a
\* query that is not blank, a new one is set
GoToPage(page) ==
  /\ page # currentPage
  /\ page \in {currentPage - 1, currentPage + 1}
  /\ currentPage' = page
  /\ timers' = WithoutEffect(timers) \o
               (IF IsBlank(currentQuery) THEN << >>
                ELSE <<[page |-> page, query |-> currentQuery, effect |-> TRUE]>>)
  /\ Len(timers') <= MaxTimers
  /\ delivered' = << >>
  /\ calls' = {}
  /\ nested' = NoNested
  /\ lastCall' = Call("goToPage", page, << >>, NoOutcome)
  /\ UNCHANGED <<storeVars, pageStates, globalMatchOrder, layers, projected,
                 componentVars, clock>>

NextApp ==
  \/ \E q \in Queries : SearchBarSearch(q)
  \/ \E out \in Outcomes \cup {NoOutcome} : TimerFires(out)
  \/ SearchBarNext
  \/ SearchBarPrevious
  \/ \E p \in Pages : GoToPage(p)

SpecApp == Init /\ [][NextApp]_vars

\* a pending timeout fires after its 100 ms: the event loop runs every callback
\* that is due
SpecAppFair ==
  SpecApp /\ WF_vars(\E out \in Outcomes \cup {NoOutcome} : TimerFires(out))

----------------------------------------------------------------------------
(* Properties *)

\* all MatchRects the store holds, in the order of getAllMatchRects
StoredRects == ConcatPages(matchRectsByPage, Pages)

\* the order of the active match, -1 if there is none
ActiveOrder ==
  IF getActiveMatch(World) = << >> THEN -1 ELSE getActiveMatch(World)[1].order

StoredOrders == {StoredRects[i].order : i \in 1..Len(StoredRects)}

PipelineComponents == {"tokenize", "findMatches", "measureSubstrings"}

\* C1: in every reachable state of the application, every MatchRect the store
\* holds was computed for the store's current query (a processPageSearch
\* delivered for a superseded query writes nothing)
C1_StoredRectsAreForCurrentQuery ==
  \A i \in 1..Len(StoredRects) :
    StoredRects[i].termId = generateTermId(currentQuery)

\* C2: in every reachable state, any two distinct MatchRects held in the
\* store have different order values
C2_OrdersDistinct ==
  \A i, j \in 1..Len(StoredRects) :
    i # j => StoredRects[i].order # StoredRects[j].order

\* C3: in every reachable state of the store the active index is -1 or
\* satisfies 0 <= activeIndex < totalMatches
C3_ActiveIndexInRange ==
  activeIndex = -1 \/ (0 <= activeIndex /\ activeIndex < totalMatches)

\* C4: nextMatch from the unset state selects the match of the lowest order,
\* each further nextMatch before the last match selects a match of a higher
\* order, and prevMatch from the unset state selects the match of the highest
\* order
C4_NavigationFollowsOrder ==
  [][/\ (lastCall'.op = "nextMatch" /\ totalMatches > 0 /\ activeIndex = -1)
          => \A o \in StoredOrders : ActiveOrder' <= o
     /\ (lastCall'.op = "nextMatch" /\ activeIndex >= 0
           /\ activeIndex < totalMatches - 1)
          => ActiveOrder' > ActiveOrder
     /\ (lastCall'.op = "prevMatch" /\ totalMatches > 0 /\ activeIndex = -1)
          => \A o \in StoredOrders : ActiveOrder' >= o]_vars

\* C5: handleViewportChange leaves the store, the order counter and the page
\* states unchanged and invokes no tokenizer, matcher or measurer
C5_ViewportChangeOnlyRepaints ==
  [][lastCall'.op = "handleViewportChange"
       => /\ UNCHANGED <<storeVars, globalMatchOrder, pageStates>>
          /\ calls' \cap PipelineComponents = {}]_vars

\* a viewport change has repainted a page that holds matches
C5_Witness ==
  /\ lastCall.op = "handleViewportChange"
  /\ "paint" \in calls
  /\ \E p \in Pages : layers[p] # << >> /\ Len(layers[p]) = Len(matchRectsByPage[p])

\* C6: after a processPageSearch whose pipeline throws, the page has an empty
\* stored list and is Processed for the query, and every other page's list
\* and state are unchanged
C6_ThrowLeavesPageProcessedEmpty ==
  [][(lastCall'.op = "processPageSearch" /\ lastCall'.kind \in {"throws", "renderThrows"})
       => /\ matchRectsByPage'[lastCall'.page] = << >>
          /\ pageStates'[lastCall'.page] =
               [isProcessing |-> FALSE, isProcessed |-> TRUE,
                lastQuery |-> lastCall'.query]
          /\ \A p \in Pages \ {lastCall'.page} :
               /\ matchRectsByPage'[p] = matchRectsByPage[p]
               /\ pageStates'[p] = pageStates[p]]_vars

\* the call a listener made found its page in state Processing for its query
C7_RequestWhileProcessing ==
  /\ nested.call.op = "processPageSearch"
  /\ nested.pre.pageStates[nested.call.page].isProcessing
  /\ nested.pre.pageStates[nested.call.page].lastQuery = nested.call.query

\* C7: a processPageSearch for a page that is Processing for the same query
\* changes neither the store nor the order counter nor the page states, and
\* the run in flight writes its match set once
C7_RequestWhileProcessingIgnored ==
  C7_RequestWhileProcessing
    => /\ nested.post = nested.pre
       /\ lastCall.kind = "rects"
            => /\ Len(delivered) = 1
               /\ matchRectsByPage[lastCall.page] =
                    delivered[1].matchRectsByPage[lastCall.page]
               /\ Len(matchRectsByPage[lastCall.page]) = lastCall.n

\* a listener asked for the page in flight while its rects were being stored
C7_Witness ==
  /\ C7_RequestWhileProcessing
  /\ lastCall.kind = "rects"
  /\ lastCall.page = nested.call.page

\* C8: in every reachable state and in every snapshot handed to a listener,
\* totalMatches is the sum of the lengths of the pages' lists
C8_TotalIsSumOfLengths ==
  /\ totalMatches = Len(StoredRects)
  /\ \A i \in 1..Len(delivered) :
       delivered[i].totalMatches = Len(ConcatPages(delivered[i].matchRectsByPage, Pages))

\* a listener was handed a snapshot with matches on both pages
C8_Witness ==
  /\ lastCall.op = "setMatchRects"
  /\ Len(delivered) = 1
  /\ \A p \in Pages : delivered[1].matchRectsByPage[p] # << >>
  /\ delivered[1].totalMatches = 2

C10_CounterResetsOnlyOnNewQuery ==
  [][/\ globalMatchOrder' < globalMatchOrder
          => (lastCall'.op = "startNewSearch" /\ lastCall'.query # currentQuery)
     /\ (lastCall'.op = "startNewSearch" /\ lastCall'.query = currentQuery)
          => globalMatchOrder' = globalMatchOrder]_vars

\* C11: setQuery with the current query leaves every page's list, the total
\* count and the active index unchanged and notifies nobody, and a second
\* setQuery(x) right after a setQuery(x) changes nothing of the store
C11_SetQueryIdempotent ==
  [][/\ (lastCall'.op = "setQuery" /\ lastCall'.query = currentQuery)
          => (UNCHANGED storeVars /\ delivered' = << >>)
     /\ (lastCall.op = "setQuery" /\ lastCall'.op = "setQuery"
           /\ lastCall'.query = lastCall.query)
          => UNCHANGED storeVars]_vars

\* setQuery was called with the current query while the store held matches
C11_Witness ==
  /\ lastCall.op = "setQuery"
  /\ lastCall.query = currentQuery
  /\ delivered = << >>
  /\ totalMatches > 0
  /\ activeIndex >= 0

\* C12: processPageSearch for a page that is Processed with the same query
\* calls no tokenizer, matcher or measurer and leaves the store, the order
\* counter and the page states unchanged; it only repaints that page
C12_ProcessedPageOnlyRepaints ==
  [][(/\ lastCall'.op = "processPageSearch"
      /\ ~IsBlank(lastCall'.query)
      /\ pageStates[lastCall'.page].isProcessed
      /\ pageStates[lastCall'.page].lastQuery = lastCall'.query)
       => /\ UNCHANGED <<storeVars, globalMatchOrder, pageStates>>
          /\ calls' = {"paint"}
          /\ delivered' = << >>
          /\ \A p \in Pages \ {lastCall'.page} : layers'[p] = layers[p]]_vars

\* a processed page that holds matches was asked for again with its query
C12_Witness ==
  /\ lastCall.op = "processPageSearch"
  /\ lastCall.kind = "none"
  /\ calls = {"paint"}
  /\ pageStates[lastCall.page].isProcessed
  /\ pageStates[lastCall.page].lastQuery = lastCall.query
  /\ matchRectsByPage[lastCall.page] # << >>

\* C13: every processPageSearch run that entered Processing and did not throw
\* (zero tokens, zero matches and zero rectangles included) ends with the
\* page Processed for the requested query
C13_RunEndsProcessed ==
  [][(/\ lastCall'.op = "processPageSearch"
      /\ lastCall'.kind \in {"noTokens", "noMatches", "noRects", "rects"})
       => pageStates'[lastCall'.page] =
            [isProcessing |-> FALSE, isProcessed |-> TRUE,
             lastQuery |-> lastCall'.query]]_vars

\* C14: processPageSearch(page, q') on a page Processed under another query q
\* runs the pipeline again, and when it returns the page's list holds exactly
\* the MatchRects found for q' and the page is Processed with q'
C14_StaleQueryReplacesList ==
  [][(/\ lastCall'.op = "processPageSearch"
      /\ ~IsBlank(lastCall'.query)
      /\ pageStates[lastCall'.page].isProcessed
      /\ pageStates[lastCall'.page].lastQuery # lastCall'.query
      /\ lastCall'.kind \in {"noTokens", "noMatches", "noRects", "rects"})
       => /\ "tokenize" \in calls'
          /\ Len(matchRectsByPage'[lastCall'.page]) = lastCall'.n
          /\ \A i \in 1..Len(matchRectsByPage'[lastCall'.page]) :
               /\ matchRectsByPage'[lastCall'.page][i].termId =
                    generateTermId(lastCall'.query)
               /\ matchRectsByPage'[lastCall'.page][i].order =
                    globalMatchOrder + (i - 1)
          /\ pageStates'[lastCall'.page] =
               [isProcessing |-> FALSE, isProcessed |-> TRUE,
                lastQuery |-> lastCall'.query]]_vars

\* the active indices after each of k successive nextMatch calls on W
RECURSIVE VisitedByNext(_, _)
VisitedByNext(W, k) ==
  IF k = 0 THEN << >>
  ELSE <<nextMatch(W).activeIndex>> \o VisitedByNext(nextMatch(W), k - 1)

\* C15: with N = totalMatches > 0, nextMatch moves the active index from
\* i < N-1 to i+1, from N-1 to 0 and from -1 to 0; prevMatch moves it from
\* i > 0 to i-1, from 0 to N-1 and from -1 to N-1; N nextMatch calls from
\* unset visit 0..N-1 in turn and the call after them returns to 0
C15_NavigationWraps ==
  /\ [][(lastCall'.op = "nextMatch" /\ totalMatches > 0)
          => /\ UNCHANGED <<matchRectsByPage, totalMatches, currentQuery>>
             /\ (0 <= activeIndex /\ activeIndex < totalMatches - 1)
                  => activeIndex' = activeIndex + 1
             /\ activeIndex = totalMatches - 1 => activeIndex' = 0
             /\ activeIndex = -1 => activeIndex' = 0]_vars
  /\ [][(lastCall'.op = "prevMatch" /\ totalMatches > 0)
          => /\ UNCHANGED <<matchRectsByPage, totalMatches, currentQuery>>
             /\ (0 < activeIndex /\ activeIndex <= totalMatches - 1)
                  => activeIndex' = activeIndex - 1
             /\ activeIndex = 0 => activeIndex' = totalMatches - 1
             /\ activeIndex = -1 => activeIndex' = totalMatches - 1]_vars
  /\ [](totalMatches > 0 /\ activeIndex = -1
          => VisitedByNext(World, totalMatches + 1) =
               [k \in 1..(totalMatches + 1) |-> (k - 1) % totalMatches])

\* nextMatch has wrapped from the last of at least three matches to the first
C15_Witness ==
  /\ lastCall.op = "nextMatch"
  /\ totalMatches >= 3
  /\ activeIndex = 0
  /\ Len(delivered) = 1
  /\ delivered[1].activeIndex = 0
  /\ matchRectsByPage[1] # << >>
  /\ matchRectsByPage[2] # << >>

\* C16: with totalMatches = 0, nextMatch and prevMatch leave the page lists,
\* the active index, the query and the total unchanged and call no listener
C16_NavigationOnEmptyStore ==
  [][(lastCall'.op \in {"nextMatch", "prevMatch"} /\ totalMatches = 0)
       => (UNCHANGED storeVars /\ delivered' = << >>)]_vars

\* prevMatch was called on a store that has a query and no match
C16_Witness ==
  /\ lastCall.op = "prevMatch"
  /\ totalMatches = 0
  /\ activeIndex = -1
  /\ currentQuery # << >>
  /\ delivered = << >>

\* C17: with totalMatches > 0 and a valid active index, nextMatch followed by
\* prevMatch, and prevMatch followed by nextMatch, restore the active index
C17_NextPrevInverse ==
  (totalMatches > 0 /\ 0 <= activeIndex /\ activeIndex < totalMatches)
    => /\ prevMatch(nextMatch(World)).activeIndex = activeIndex
       /\ nextMatch(prevMatch(World)).activeIndex = activeIndex

\* after a nextMatch the first of at least two matches is active, so that
\* prevMatch wraps to the last one and nextMatch wraps back
C17_Witness ==
  /\ lastCall.op = "nextMatch"
  /\ totalMatches >= 2
  /\ activeIndex = 0
  /\ prevMatch(World).activeIndex = totalMatches - 1

\* the session state a listener could read now
VisibleNow == Visible(World)

\* C18: every call that changes the store, the order counter or the page
\* states calls the listeners, and the state the listeners can read at the
\* last notification is the state the call leaves: the store's query, lists,
\* total and active index, and for startNewSearch also the order counter and
\* the page states
C18_ListenersSeePostState ==
  [][/\ storeVars' # storeVars
          => /\ delivered' # << >>
             /\ LET seen == delivered'[Len(delivered')]
                IN /\ seen.matchRectsByPage = matchRectsByPage'
                   /\ seen.activeIndex = activeIndex'
                   /\ seen.totalMatches = totalMatches'
                   /\ seen.currentQuery = currentQuery'
     /\ (lastCall'.op = "startNewSearch"
           /\ <<storeVars, globalMatchOrder, pageStates>>'
                # <<storeVars, globalMatchOrder, pageStates>>)
          => /\ delivered' # << >>
             /\ delivered'[Len(delivered')] = VisibleNow']_vars

\* the global index of the first match of page p
FirstIndexOf(p) == Len(ConcatPages(matchRectsByPage, {q \in Pages : q < p}))

\* page p's layer holds one highlight per MatchRect stored for p, in the
\* stored sequence, and the highlight of the active match, if it is on p, is
\* the only one marked active
LayerShowsStore(p) ==
  /\ Len(layers[p]) = Len(matchRectsByPage[p])
  /\ \A i \in 1..Len(layers[p]) :
       /\ layers[p][i].order = matchRectsByPage[p][i].order
       /\ layers[p][i].active <=> (FirstIndexOf(p) + (i - 1) = activeIndex)

\* C19: when processPageSearch returns, and after the repaint of a page by
\* handleViewportChange, the page's layer holds exactly one highlight per
\* MatchRect stored for that page, exactly one of them marked active if the
\* active match is on that page and none otherwise
C19_LayerShowsStoredRects ==
  [][/\ \A p \in Pages :
          (lastCall'.op = "processPageSearch" /\ lastCall'.page = p)
            => LayerShowsStore(p)'
     /\ \A ps \in VisiblePageLists :
          (lastCall'.op = "handleViewportChange" /\ HandleViewportChange(ps))
            => \A i \in 1..Len(ps) :
                 matchRectsByPage[ps[i]] # << >> => LayerShowsStore(ps[i])']_vars

\* a viewport change repainted a page whose layer showed another active match
C19_Witness ==
  /\ lastCall.op = "handleViewportChange"
  /\ "paint" \in calls
  /\ \E p \in Pages :
       /\ Len(matchRectsByPage[p]) >= 2
       /\ LayerShowsStore(p)
       /\ \E i \in 1..Len(layers[p]) : i >= 2 /\ layers[p][i].active

----------------------------------------------------------------------------
(* The projector on its own: a rectangle is taken to CSS space and back *)

\* viewports: scale from 0.25 to 4, the four rotations, landscape and portrait
Scales == {<<1, 4>>, <<3, 4>>, <<1, 1>>, <<3, 2>>, <<4, 1>>}
Rotations == {0, 90, 180, 270}
Viewports ==
  {[width |-> Rat(size[1]), height |-> Rat(size[2]), scale |-> s, rotation |-> r] :
     size \in {<<800, 600>>, <<600, 800>>}, s \in Scales, r \in Rotations}

\* rectangles in PDF space, [x, y, w, h]
PdfRects ==
  {<<x, y, w, h>> :
     x \in {Rat(0), <<21, 2>>, Rat(350)}, y \in {Rat(0), Rat(10), Rat(275)},
     w \in {Rat(5), Rat(100)}, h \in {Rat(5), Rat(50)}}

\* rectangles whose top edge is the top edge of the page shown by vp
PageTopRects(vp) ==
  {<<Rat(0), RatSub(RatDiv(vp.height, vp.scale), h), Rat(100), h>> :
     h \in {Rat(5), Rat(50)}}

InitProjector ==
  /\ InitSearch
  /\ InitComponents
  /\ \E vp \in Viewports : \E r \in PdfRects \cup PageTopRects(vp) :
       projected = [stage |-> "bboxPdf", bboxPdf |-> r, viewport |-> vp]

PdfToCss ==
  /\ projected.stage = "bboxPdf"
  /\ projected' = [stage |-> "cssRect", bboxPdf |-> projected.bboxPdf,
                   viewport |-> projected.viewport,
                   cssRect |-> pdfToCss(projected.bboxPdf, projected.viewport)]
  /\ UNCHANGED <<searchVars, componentVars, clock>>

CssToPdf ==
  /\ projected.stage = "cssRect"
  /\ projected' = [stage |-> "roundTrip", bboxPdf |-> projected.bboxPdf,
                   viewport |-> projected.viewport, cssRect |-> projected.cssRect,
                   roundTrip |-> cssToPdf(projected.cssRect, projected.viewport)]
  /\ UNCHANGED <<searchVars, componentVars, clock>>

\* the viewport of the same page at twice the scale: page.getViewport({ scale,
\* rotation }) gives the page's width and height multiplied by the scale
ZoomedViewport(vp) ==
  [width |-> RatMul(Rat(2), vp.width), height |-> RatMul(Rat(2), vp.height),
   scale |-> RatMul(Rat(2), vp.scale), rotation |-> vp.rotation]

\* the same viewport record with nothing but its scale doubled
RescaledViewport(vp) == [vp EXCEPT !.scale = RatMul(Rat(2), vp.scale)]

\* the rectangle is projected at the scale of the viewport and at twice that
PdfToCssZoomed ==
  /\ projected.stage = "bboxPdf"
  /\ projected' = [stage |-> "zoomed", bboxPdf |-> projected.bboxPdf,
                   viewport |-> projected.viewport,
                   cssRect |-> pdfToCss(projected.bboxPdf, projected.viewport),
                   cssRectZoomed |-> pdfToCss(projected.bboxPdf,
                                              ZoomedViewport(projected.viewport)),
                   cssRectRescaled |-> pdfToCss(projected.bboxPdf,
                                                RescaledViewport(projected.viewport))]
  /\ UNCHANGED <<searchVars, componentVars, clock>>

\* validateAlignment's first step: the crosshairs of the viewport
CreateValidationCrosshairs ==
  /\ projected.stage = "bboxPdf"
  /\ projected' = [stage |-> "crosshairs", bboxPdf |-> projected.bboxPdf,
                   viewport |-> projected.viewport,
                   crosshairRects |-> createValidationCrosshairs(projected.viewport)]
  /\ UNCHANGED <<searchVars, componentVars, clock>>

NextProjector == PdfToCss \/ CssToPdf \/ PdfToCssZoomed \/ CreateValidationCrosshairs

SpecProjector == InitProjector /\ [][NextProjector]_vars

\* C20: for every rectangle r in PDF space and every viewport vp with scale
\* in [0.25, 4] and rotation 0, 90, 180 or 270, cssToPdf(pdfToCss(r, vp), vp)
\* is within 0.5 of r in each of x, y, w and h
C20_RoundTripWithinTolerance ==
  projected.stage = "roundTrip"
    => \A i \in 1..4 :
         RatLeq(RatAbs(RatSub(projected.roundTrip[i], projected.bboxPdf[i])),
                <<1, 2>>)

\* a rectangle went there and back through a rotated, zoomed portrait viewport
C20_Witness ==
  /\ projected.stage = "roundTrip"
  /\ projected.viewport.rotation = 90
  /\ projected.viewport.scale = <<3, 4>>
  /\ projected.viewport.width # projected.viewport.height
  /\ projected.bboxPdf[1] = <<21, 2>>
  /\ projected.cssRect # projected.bboxPdf

\* C21: for rotation 0 and every scale and viewport height, pdfToCss gives
\* left = x*scale, top = height - (y + h)*scale, width = w*scale and
\* height = h*scale; a rectangle with y = 0 gets top = height - h*scale and a
\* rectangle with y = height/scale - h gets top = 0
C21_UprightProjection ==
  (projected.stage = "cssRect" /\ projected.viewport.rotation = 0)
    => LET r == projected.bboxPdf
           vp == projected.viewport
           css == projected.cssRect
       IN /\ css[1] = RatMul(r[1], vp.scale)
          /\ css[2] = RatSub(vp.height, RatMul(RatAdd(r[2], r[4]), vp.scale))
          /\ css[3] = RatMul(r[3], vp.scale)
          /\ css[4] = RatMul(r[4], vp.scale)
          /\ r[2] = Rat(0) => css[2] = RatSub(vp.height, RatMul(r[4], vp.scale))
          /\ r[2] = RatSub(RatDiv(vp.height, vp.scale), r[4]) => css[2] = Rat(0)

\* a rectangle at the top of a zoomed page was projected to the top of the box
C21_Witness ==
  /\ projected.stage = "cssRect"
  /\ projected.viewport.rotation = 0
  /\ projected.viewport.scale = <<3, 4>>
  /\ projected.bboxPdf[2] = RatSub(RatDiv(projected.viewport.height, <<3, 4>>),
                                   projected.bboxPdf[4])
  /\ projected.cssRect[2] = Rat(0)

\* twice a rectangle, component by component
Doubled(rect) == [i \in 1..4 |-> RatMul(Rat(2), rect[i])]

\* C22 as stated: with the rectangle and the rotation fixed, doubling
\* vp.scale alone doubles left, top, width and height of pdfToCss's result
C22_DoublingScaleAlone ==
  projected.stage = "zoomed" => projected.cssRectRescaled = Doubled(projected.cssRect)

\* C22: with the rectangle and the rotation fixed, doubling vp.scale together
\* with vp.width and vp.height (the same page at twice the zoom) doubles left,
\* top, width and height of pdfToCss's result
C22_DoublingScaleOfPage ==
  projected.stage = "zoomed" => projected.cssRectZoomed = Doubled(projected.cssRect)

\* a rotated page was projected at 75% and at 150%
C22_Witness ==
  /\ projected.stage = "zoomed"
  /\ projected.viewport.rotation = 90
  /\ projected.viewport.scale = <<3, 4>>
  /\ projected.bboxPdf[2] = Rat(10)
  /\ projected.cssRectZoomed # projected.cssRectRescaled

\* C23: for every viewport (any scale, any of the four rotations, square or
\* not) createValidationCrosshairs returns four squares of side 10 CSS pixels,
\* each inside the box [0, width] x [0, height], one at each corner of the box
C23_CrosshairsHugCorners ==
  projected.stage = "crosshairs"
    => LET vp == projected.viewport
           rects == projected.crosshairRects
           right == RatSub(vp.width, Rat(10))
           bottom == RatSub(vp.height, Rat(10))
       IN /\ \A i \in 1..4 :
               /\ rects[i][3] = Rat(10) /\ rects[i][4] = Rat(10)
               /\ RatLeq(Rat(0), rects[i][1]) /\ RatLeq(rects[i][1], right)
               /\ RatLeq(Rat(0), rects[i][2]) /\ RatLeq(rects[i][2], bottom)
          /\ {<<rects[i][1], rects[i][2]>> : i \in 1..4}
               = {<<Rat(0), Rat(0)>>, <<right, Rat(0)>>,
                  <<Rat(0), bottom>>, <<right, bottom>>}

----------------------------------------------------------------------------
(* The text pipeline on its own: one text element is tokenized, matched,
   measured and stored by processPageSearch *)

\* the longest text element
MaxText == 4

\* texts of the code units space, A, a and the ligature fi (U+FB01)
RECURSIVE TextsOfLength(_)
TextsOfLength(n) ==
  IF n = 0 THEN {<< >>}
  ELSE {Append(t, c) : t \in TextsOfLength(n - 1), c \in {32, 65, 97, 64257}}

Texts == UNION {TextsOfLength(n) : n \in 0..MaxText}

\* the queries a, aa, A, " a", i and fi, and the blank query " "
PipelineQueries == {<<97>>, <<97, 97>>, <<65>>, <<32, 97>>, <<105>>, <<102, 105>>, <<32>>}

\* the page of the text element, and the viewport it is shown in
PipelinePage == 1
PipelineViewport == [width |-> Rat(800), height |-> Rat(600), scale |-> Rat(1), rotation |-> 0]

\* the text element is set in a font whose glyphs are all this wide (CSS pixels)
GlyphWidth == 6
\* computedStyle.fontSize of the text element
FontSize == 10

\* String.prototype.toLowerCase, on one code unit
ToLowerCase(c) == IF c \in 65..90 THEN c + 32 ELSE c

\* String.prototype.normalize('NFKC'), on one code unit: the ligature becomes f, i
NFKC(c) == IF c = 64257 THEN <<102, 105>> ELSE <<c>>

\* originalChar.normalize('NFKC').toLowerCase()
NormalizedChar(c) == [i \in 1..Len(NFKC(c)) |-> ToLowerCase(NFKC(c)[i])]

RECURSIVE NormalizedChars(_)
NormalizedChars(text) ==
  IF text = << >> THEN << >>
  ELSE NormalizedChar(Head(text)) \o NormalizedChars(Tail(text))

\* tokenizer normalizeText: text.normalize('NFKC').toLowerCase().trim()
normalizeText(text) == Trim(NormalizedChars(text))

\* the last position (from 1) of the run of /\S+|\s+/ that starts at position i
RECURSIVE RunEnd(_, _)
RunEnd(text, i) ==
  IF i < Len(text) /\ IsSpace(text[i + 1]) = IsSpace(text[i])
  THEN RunEnd(text, i + 1)
  ELSE i

\* the matches of tokenRegex.exec from position i on, as tokens
RECURSIVE TokensFrom(_, _)
TokensFrom(text, i) ==
  IF i > Len(text) THEN << >>
  ELSE LET tokenText == SubSeq(text, i, RunEnd(text, i))
           startIndex == i - 1
       IN <<[text |-> tokenText, startIndex |-> startIndex,
             endIndex |-> startIndex + Len(tokenText)]>>
          \o TokensFrom(text, i + Len(tokenText))

\* tokenize that keeps the words only
tokenizeWords(text) == SelectSeq(TokensFrom(text, 1), LAMBDA t : ~IsSpace(t.text[1]))

\* tokenize(text)
tokenize(text) == TokensFrom(text, 1)

\* tokens.map(t => t.text).join('')
RECURSIVE JoinTexts(_)
JoinTexts(tokens) ==
  IF tokens = << >> THEN << >> ELSE Head(tokens).text \o JoinTexts(Tail(tokens))

\* the positions (from 0) at which `sub` occurs in s
Occurrences(s, sub) ==
  {i \in 0..(Len(s) - Len(sub)) : SubSeq(s, i + 1, i + Len(sub)) = sub}

\* String.prototype.indexOf(sub, from)
IndexOf(s, sub, from) ==
  LET found == {i \in Occurrences(s, sub) : i >= from}
  IN IF found = {} THEN -1 ELSE CHOOSE i \in found : \A j \in found : i <= j

\* the loop of findOriginalIndex
RECURSIVE OriginalIndexFrom(_, _, _, _)
OriginalIndexFrom(originalText, originalIndex, normalizedCount, normalizedIndex) ==
  IF originalIndex < Len(originalText) /\ normalizedCount < normalizedIndex
  THEN OriginalIndexFrom(originalText, originalIndex + 1,
         normalizedCount + Len(NormalizedChar(originalText[originalIndex + 1])),
         normalizedIndex)
  ELSE originalIndex

\* findOriginalIndex(originalText, normalizedText, normalizedIndex)
findOriginalIndex(originalText, normalizedText, normalizedIndex) ==
  IF Len(originalText) = Len(normalizedText) THEN normalizedIndex
  ELSE OriginalIndexFrom(originalText, 0, 0, normalizedIndex)

\* the while loop of findMatches, from searchIndex on
RECURSIVE MatchesFrom(_, _, _, _, _)
MatchesFrom(fullText, normalizedFullText, normalizedQuery, termId, searchIndex) ==
  IF ~(searchIndex < Len(normalizedFullText)) THEN << >>
  ELSE LET matchIndex == IndexOf(normalizedFullText, normalizedQuery, searchIndex)
       IN IF matchIndex = -1 THEN << >>
          ELSE LET startIndex == findOriginalIndex(fullText, normalizedFullText, matchIndex)
                   endIndex == findOriginalIndex(fullText, normalizedFullText,
                                                 matchIndex + Len(normalizedQuery))
               IN (IF startIndex # -1 /\ endIndex # -1
                   THEN <<[startIndex |-> startIndex, endIndex |-> endIndex,
                           termId |-> termId]>>
                   ELSE << >>)
                  \o MatchesFrom(fullText, normalizedFullText, normalizedQuery, termId,
                                 matchIndex + 1)

\* findMatches(tokens, query)
findMatches(tokens, query) ==
  IF IsBlank(query) \/ tokens = << >> THEN << >>
  ELSE MatchesFrom(JoinTexts(tokens), normalizeText(JoinTexts(tokens)),
                   normalizeText(query), generateTermId(query), 0)

\* String.prototype.substring(start, end) of a string of the given length, as
\* the pair of positions it copies between
SubstringBounds(length, start, end) ==
  LET s == Max(0, Min(start, length))
      e == Max(0, Min(end, length))
  IN <<Min(s, e), Max(s, e)>>

\* measureWithElementFallback: canvas text metrics; null (here << >>) without
\* a 2d context
measureWithElementFallback(textContent, startIndex, endIndex, canvas) ==
  IF ~canvas THEN << >>
  ELSE LET substring == SubstringBounds(Len(textContent), startIndex, endIndex)
           precedingText == SubstringBounds(Len(textContent), 0, startIndex)
       IN <<<<Rat((precedingText[2] - precedingText[1]) * GlyphWidth), Rat(0),
              Rat((substring[2] - substring[1]) * GlyphWidth),
              RatMul(Rat(FontSize), <<6, 5>>)>>>>

\* measureSingleSubstring on an element with one text node: the rectangle of
\* the Range, or of the fallback; a sequence of no or one rectangle
measureSingleSubstring(textContent, startIndex, endIndex, canvas) ==
  IF /\ startIndex >= 0 /\ startIndex < Len(textContent)
     /\ endIndex <= Len(textContent)
  THEN <<<<Rat(startIndex * GlyphWidth), Rat(0),
           Rat(Max(endIndex - startIndex, 0) * GlyphWidth), Rat(FontSize)>>>>
  ELSE measureWithElementFallback(textContent, startIndex, endIndex, canvas)

\* measureSubstrings(element, spans)
RECURSIVE measureSubstrings(_, _, _)
measureSubstrings(textContent, spans, canvas) ==
  IF spans = << >> THEN << >>
  ELSE measureSingleSubstring(textContent, Head(spans).startIndex,
                              Head(spans).endIndex, canvas)
       \o measureSubstrings(textContent, Tail(spans), canvas)

\* a text element and a query, before processPageSearch is called
InitPipeline ==
  /\ InitSearch
  /\ projected = NoProjection
  /\ listeners = << >>
  /\ listenerCalls = << >>
  /\ scale = Rat(1)
  /\ clock = FALSE
  /\ \E text \in Texts, query \in PipelineQueries, canvas \in BOOLEAN :
       pipeline = [stage |-> "text", text |-> text, query |-> query,
                   canvas |-> canvas, tokens |-> << >>, matchSpans |-> << >>,
                   cssRects |-> << >>]

\* the world the pipeline works on: what the earlier steps of the run notified
\* and called is kept
PipelineWorld(component) ==
  [World EXCEPT !.delivered = delivered, !.calls = calls \cup {component}]

\* the variables after a step of the run that took the world to `after`
PipelineBecomes(after, pipe) ==
  /\ matchRectsByPage' = after.matchRectsByPage
  /\ activeIndex' = after.activeIndex
  /\ totalMatches' = after.totalMatches
  /\ currentQuery' = after.currentQuery
  /\ pageStates' = after.pageStates
  /\ globalMatchOrder' = after.globalMatchOrder
  /\ layers' = after.layers
  /\ delivered' = after.delivered
  /\ calls' = after.calls
  /\ nested' = after.nested
  /\ pipeline' = pipe
  /\ UNCHANGED <<currentPage, timers, lastCall, projected, listeners,
                 listenerCalls, scale, clock>>

\* processPageSearch up to step 1: a blank query clears the page; otherwise
\* the page is marked as processing and the text is tokenized
Tokenize ==
  /\ pipeline.stage = "text"
  /\ IF IsBlank(pipeline.query)
     THEN PipelineBecomes(clearPageResults(World, PipelinePage, NoCall),
                          [pipeline EXCEPT !.stage = "blank"])
     ELSE LET tokens == tokenize(pipeline.text)
              W == setPageState(PipelineWorld("tokenize"), PipelinePage,
                     [isProcessing |-> TRUE, isProcessed |-> FALSE,
                      lastQuery |-> pipeline.query])
          IN IF tokens = << >>
             THEN PipelineBecomes(clearPageResults(W, PipelinePage, NoCall),
                                  [pipeline EXCEPT !.stage = "cleared"])
             ELSE PipelineBecomes(W, [pipeline EXCEPT !.stage = "tokens",
                                                      !.tokens = tokens])

\* step 2: the matches of the query in the tokens
FindMatches ==
  /\ pipeline.stage = "tokens"
  /\ LET matchSpans == findMatches(pipeline.tokens, pipeline.query)
         W == PipelineWorld("findMatches")
     IN IF matchSpans = << >>
        THEN PipelineBecomes(clearPageResults(W, PipelinePage, NoCall),
                             [pipeline EXCEPT !.stage = "cleared"])
        ELSE PipelineBecomes(W, [pipeline EXCEPT !.stage = "spans",
                                                 !.matchSpans = matchSpans])

\* step 3: the rectangles of the matches
MeasureSubstrings ==
  /\ pipeline.stage = "spans"
  /\ LET cssRects == measureSubstrings(pipeline.text, pipeline.matchSpans,
                                       pipeline.canvas)
         W == PipelineWorld("measureSubstrings")
     IN IF cssRects = << >>
        THEN PipelineBecomes(clearPageResults(W, PipelinePage, NoCall),
                             [pipeline EXCEPT !.stage = "cleared"])
        ELSE PipelineBecomes(W, [pipeline EXCEPT !.stage = "cssRects",
                                                 !.cssRects = cssRects])

\* steps 4 to 6 and the page marked as processed
StoreMatchRects ==
  /\ pipeline.stage = "cssRects"
  /\ LET n == Min(Len(pipeline.matchSpans), Len(pipeline.cssRects))
         matchRects ==
           [i \in 1..n |->
              [page |-> PipelinePage, termId |-> pipeline.matchSpans[i].termId,
               order |-> globalMatchOrder + (i - 1),
               bboxPdf |-> cssToPdf(pipeline.cssRects[i], PipelineViewport)]]
         W1 == [PipelineWorld("cssToPdf") EXCEPT !.globalMatchOrder = @ + n]
         W2 == setMatchRects(W1, PipelinePage, matchRects)
         W3 == setPageState(renderPageHighlights(W2, PipelinePage), PipelinePage,
                 [isProcessing |-> FALSE, isProcessed |-> TRUE,
                  lastQuery |-> pipeline.query])
     IN PipelineBecomes(W3, [pipeline EXCEPT !.stage = "stored"])

NextPipeline == Tokenize \/ FindMatches \/ MeasureSubstrings \/ StoreMatchRects

SpecPipeline == InitPipeline /\ [][NextPipeline]_vars

\* C24: for every text T, leading or trailing white space included, and every
\* non-blank query Q that occurs k times (overlaps counted) in normalized T,
\* findMatches returns exactly k spans in ascending startIndex, and the slice
\* T[startIndex:endIndex] of each span normalizes to normalized Q
C24_SpansAreTheOccurrences ==
  (\/ pipeline.stage \in {"spans", "cssRects", "stored"}
   \/ pipeline.stage = "cleared" /\ "findMatches" \in calls)
    => LET T == pipeline.text
           Q == normalizeText(pipeline.query)
           spans == pipeline.matchSpans
       IN /\ Len(spans) = Cardinality(Occurrences(normalizeText(T), Q))
          /\ \A i \in 1..(Len(spans) - 1) : spans[i].startIndex < spans[i + 1].startIndex
          /\ \A i \in 1..Len(spans) :
               /\ 0 <= spans[i].startIndex
               /\ spans[i].startIndex <= spans[i].endIndex
               /\ spans[i].endIndex <= Len(T)
               /\ normalizeText(SubSeq(T, spans[i].startIndex + 1, spans[i].endIndex)) = Q

\* C25: the tokens of every input are contiguous and do not overlap (the first
\* starts at 0, each starts where the one before ends, the last ends at the
\* length of the input), their texts joined give the input, each is a maximal
\* run of white space only or of other characters only, and the empty input
\* has no tokens
C25_TokensPartitionTheText ==
  pipeline.stage \in {"tokens", "spans", "cssRects", "stored", "cleared"}
    => LET text == pipeline.text
           tokens == IF pipeline.stage = "cleared" /\ text = << >> THEN << >>
                     ELSE pipeline.tokens
       IN /\ text = << >> => pipeline.tokens = << >>
          /\ JoinTexts(tokens) = text
          /\ tokens # << >> =>
               /\ tokens[1].startIndex = 0
               /\ tokens[Len(tokens)].endIndex = Len(text)
          /\ \A i \in 1..Len(tokens) :
               /\ tokens[i].startIndex < tokens[i].endIndex
               /\ tokens[i].text = SubSeq(text, tokens[i].startIndex + 1, tokens[i].endIndex)
               /\ \A j \in 1..Len(tokens[i].text) :
                    IsSpace(tokens[i].text[j]) = IsSpace(tokens[i].text[1])
               /\ i > 1 =>
                    /\ tokens[i].startIndex = tokens[i - 1].endIndex
                    /\ IsSpace(tokens[i].text[1]) # IsSpace(tokens[i - 1].text[1])

\* a text of words and white space, white space first, was split in three
C25_Witness ==
  /\ pipeline.stage = "tokens"
  /\ Len(pipeline.tokens) = 3
  /\ IsSpace(pipeline.text[1])
  /\ Len(pipeline.tokens[2].text) = 2

\* C26: no MatchRect whose rectangle has a width or height that is not
\* positive enters the store: an empty span, a span outside the text and a
\* measurement of no area leave no stored match for the page
C26_StoredRectsHaveArea ==
  \A p \in Pages : \A i \in 1..Len(matchRectsByPage[p]) :
    /\ ~RatLeq(matchRectsByPage[p][i].bboxPdf[3], Rat(0))
    /\ ~RatLeq(matchRectsByPage[p][i].bboxPdf[4], Rat(0))

----------------------------------------------------------------------------
(* The application left alone after a search *)

\* C27: with the TextLayer subscribed, so that every notification with a
\* query that is not blank schedules processPageSearch for its page, the
\* application comes to rest once the user stops acting, on pages with
\* matches and on pages without: if from some point on nothing but timeouts
\* run, each finding the page's matches or finding that it has none, then from
\* some point on no timeout is pending
C27_SearchSettles ==
  <>[](/\ lastCall.op = "processPageSearch"
       /\ lastCall.kind \in {"rects", "none", "noMatches"})
    => <>[](timers = << >>)

----------------------------------------------------------------------------
(* The active match and the pages around it *)

\* getActiveMatch(), as a sequence of no or one MatchRect
ActiveMatchNow == getActiveMatch(World)

\* C28: if an active match is set and rects are then stored for another page
\* (say a page with a lower number whose processing ends later), the active
\* match afterwards is the same MatchRect, same page and same order, as before
C28_ActiveMatchStaysPut ==
  [][(/\ ActiveMatchNow # << >>
      /\ lastCall'.op = "processPageSearch"
      /\ lastCall'.kind = "rects"
      /\ lastCall'.page # ActiveMatchNow[1].page)
       => ActiveMatchNow' = ActiveMatchNow]_vars

----------------------------------------------------------------------------
(* The store's listeners on their own: subscribe, unsubscribe, notify *)

\* the most listeners subscribed at once
MaxListeners == 3

ListenerIds == 1..MaxListeners

\* what a listener does when it is called: it returns, it throws, or it calls
\* the unsubscribe function of the listener `target` (maybe its own) and returns
Reactions ==
  {[does |-> "returns", target |-> 0], [does |-> "throws", target |-> 0]}
  \cup {[does |-> "unsubscribes", target |-> t] : t \in ListenerIds}

\* this.listeners.indexOf(listener), from 1; 0 when it is not there
RECURSIVE ListenerIndexFrom(_, _, _)
ListenerIndexFrom(ls, id, i) ==
  IF i > Len(ls) THEN 0
  ELSE IF ls[i].id = id THEN i ELSE ListenerIndexFrom(ls, id, i + 1)

\* the function subscribe returned for the listener `id`: splice it out
unsubscribe(ls, id) ==
  LET index == ListenerIndexFrom(ls, id, 1)
  IN IF index > 0
     THEN SubSeq(ls, 1, index - 1) \o SubSeq(ls, index + 1, Len(ls))
     ELSE ls

\* Array.prototype.forEach over this.listeners: the positions 0 .. len - 1 of
\* the length at the start are visited, a position the array no longer has is
\* skipped; a listener that throws is caught and leaves the list as it is
RECURSIVE ForEachListener(_, _, _, _)
ForEachListener(ls, k, len, called) ==
  IF k >= len THEN [listeners |-> ls, called |-> called]
  ELSE IF k >= Len(ls) THEN ForEachListener(ls, k + 1, len, called)
  ELSE ForEachListener(IF ls[k + 1].does = "unsubscribes"
                       THEN unsubscribe(ls, ls[k + 1].target) ELSE ls,
                       k + 1, len, Append(called, ls[k + 1].id))

\* subscribe(listener)
Subscribe(id, reaction) ==
  /\ Len(listeners) < MaxListeners
  /\ \A i \in 1..Len(listeners) : listeners[i].id # id
  /\ listeners' = Append(listeners, [id |-> id, does |-> reaction.does,
                                     target |-> reaction.target])
  /\ UNCHANGED <<searchVars, projected, pipeline, listenerCalls, scale, clock>>

\* the function subscribe returned, called outside a notification
Unsubscribe(id) ==
  /\ listeners' = unsubscribe(listeners, id)
  /\ UNCHANGED <<searchVars, projected, pipeline, listenerCalls, scale, clock>>

\* notifyListeners(), called by the store after a change of state
NotifyListeners ==
  /\ LET done == ForEachListener(listeners, 0, Len(listeners), << >>)
     IN /\ listeners' = done.listeners
        /\ listenerCalls' = done.called
  /\ UNCHANGED <<searchVars, projected, pipeline, scale, clock>>

NextListeners ==
  \/ \E id \in ListenerIds, reaction \in Reactions : Subscribe(id, reaction)
  \/ \E id \in ListenerIds : Unsubscribe(id)
  \/ NotifyListeners

SpecListeners == Init /\ [][NextListeners]_vars

\* C29: in one notification every listener that was subscribed when the state
\* changed is called exactly once, also when a listener unsubscribes itself or
\* another one in its callback, and a listener that throws does not keep the
\* others from being called
C29_EveryListenerCalledOnce ==
  [][NotifyListeners
       => \A i \in 1..Len(listeners) :
            Cardinality({j \in 1..Len(listenerCalls') :
                           listenerCalls'[j] = listeners[i].id}) = 1]_vars

----------------------------------------------------------------------------
(* The viewer's zoom controls (components/PDFViewer/PDFViewer.tsx) *)

\* zoomIn is not followed beyond this scale
MaxScale == 5

\* page.getViewport({ scale: 1.0, rotation: page.rotate || 0 }) of each page
BaseViewport(page) ==
  IF page = 1
  THEN [width |-> Rat(600), height |-> Rat(800), scale |-> Rat(1), rotation |-> 0]
  ELSE [width |-> Rat(1000), height |-> Rat(500), scale |-> Rat(1), rotation |-> 90]

\* Math.max(0.25, Math.min(4.0, fitScale))
ClampFit(fitScale) ==
  IF RatLeq(fitScale, <<1, 4>>) THEN <<1, 4>>
  ELSE IF RatLeq(Rat(4), fitScale) THEN Rat(4) ELSE fitScale

\* the viewer's state after setScale(s)
SetScale(s) ==
  /\ scale' = s
  /\ UNCHANGED <<searchVars, projected, pipeline, listeners, listenerCalls, clock>>

\* zoomIn
ZoomIn ==
  /\ RatLeq(RatAdd(scale, <<1, 4>>), Rat(MaxScale))
  /\ SetScale(RatAdd(scale, <<1, 4>>))

\* zoomOut
ZoomOut ==
  /\ scale' = (IF RatLeq(RatSub(scale, <<1, 4>>), <<1, 4>>) THEN <<1, 4>>
               ELSE RatSub(scale, <<1, 4>>))
  /\ UNCHANGED <<searchVars, projected, pipeline, listeners, listenerCalls, clock>>

\* fitToWidth; getPage may fail, and the scale then falls back to 1
FitToWidth(clientWidth, loaded) ==
  IF ~loaded THEN SetScale(Rat(1))
  ELSE LET containerWidth == IF clientWidth = 0 THEN 800 ELSE clientWidth
           availableWidth == Rat(containerWidth - 40)
           fitScale == RatDiv(availableWidth, BaseViewport(currentPage).width)
       IN SetScale(ClampFit(fitScale))

\* fitToPage; getPage may fail, and the scale then falls back to 0.75
FitToPage(clientWidth, clientHeight, loaded) ==
  IF ~loaded THEN SetScale(<<3, 4>>)
  ELSE LET scaleX == RatDiv(Rat(clientWidth - 40), BaseViewport(currentPage).width)
           scaleY == RatDiv(Rat(clientHeight - 40), BaseViewport(currentPage).height)
           fitScale == IF RatLeq(scaleX, scaleY) THEN scaleX ELSE scaleY
       IN SetScale(ClampFit(fitScale))

\* the render effect: the viewport of the current page at the current scale
\* becomes the viewport of the layers and of the projector
RenderPage ==
  /\ projected' =
       [stage |-> "viewport",
        viewport |-> [width |-> RatMul(BaseViewport(currentPage).width, scale),
                      height |-> RatMul(BaseViewport(currentPage).height, scale),
                      scale |-> scale,
                      rotation |-> BaseViewport(currentPage).rotation]]
  /\ UNCHANGED <<searchVars, componentVars, clock>>

\* clientWidth is 0, 340, 1040 or 5040 and clientHeight 0, 540 or 5040
NextViewer ==
  \/ ZoomIn
  \/ ZoomOut
  \/ \E w \in {0, 340, 1040, 5040}, loaded \in BOOLEAN : FitToWidth(w, loaded)
  \/ \E w \in {0, 340, 1040, 5040}, h \in {0, 540, 5040}, loaded \in BOOLEAN :
       FitToPage(w, h, loaded)
  \/ RenderPage
  \/ \E p \in Pages : GoToPage(p)

SpecViewer == Init /\ [][NextViewer]_vars

\* C30: after any sequence of zoomIn, zoomOut, fitToWidth and fitToPage from
\* scale 1.0 the viewer's scale, and so the scale of every viewport handed to
\* the projector, is within the zoom range [0.25, 4.0]
C30_ScaleWithinZoomRange ==
  /\ RatLeq(<<1, 4>>, scale) /\ RatLeq(scale, Rat(4))
  /\ projected.stage = "viewport"
       => /\ RatLeq(<<1, 4>>, projected.viewport.scale)
          /\ RatLeq(projected.viewport.scale, Rat(4))

====
